---- MODULE Spec2Model ----
(***************************************************************************)
(* Model of the setpoint fault detection and correction run of the smart   *)
(* thermostat repository (func_setpoint_setting_fdd_correction.py).        *)
(*                                                                         *)
(* Units.  Setpoints in the reading table are decimal numbers; they are    *)
(* kept as integers in thousandths of a degree F (70000 is 70 degF).  The   *)
(* averages the code keeps are rounded to two decimals; they are kept as   *)
(* integers in hundredths of a degree F (7350 is 73.50 degF).  Sums, means  *)
(* and comparisons are exact; the one place where binary floating point    *)
(* can change a branch, the subtraction of two rounded means that lie on   *)
(* either side of a power of two, is kept as a choice (FloatMinus).        *)
(*                                                                         *)
(* The detector calls the setters on the class pelican with the arguments  *)
(* (value, object_type, thermostat_name).  A 'set' call is recorded where   *)
(* the detector issues it, with the value it passes; the body of the       *)
(* setter (URL and HTTP request) is not part of this model.                *)
(*                                                                         *)
(* The module also holds the two __main__ blocks (detector, schedule       *)
(* learner, schedule correction), the calls of the driver that poll the    *)
(* vendor API and parse its responses, the CSV log those calls write, and  *)
(* the computation of the two previous weekdays (func_prev_weekday) on     *)
(* dates kept as day numbers (proleptic ordinals, day 1 a Monday).         *)
(* Each part has its own specification; the variables of the other parts   *)
(* stay at their idle values.                                              *)
(***************************************************************************)
EXTENDS Integers, Sequences, FiniteSets

VARIABLES
    df_data_in,                  \* the reading table handed to the detector
    fault_correction_enable,     \* 'ON' / 'OFF' / anything else
    fault_correction_way,        \* 'Immediate' / 'Scheduled' / 'User' / anything else
    current_time,                \* wall clock read at the start of the run
    pc,                          \* position of the run
    ave_clg_spt_clg_operation,   \* rounded mean coolSetting, occupied cooling rows
    ave_htg_spt_htg_operation,   \* rounded mean heatSetting, occupied heating rows
    ave_clg_spt_occ_operation,   \* rounded mean coolSetting, occupied rows
    ave_htg_spt_occ_operation,   \* rounded mean heatSetting, occupied rows
    occ_clg_spt_low_flag,        \* overcooling branch taken
    occ_htg_spt_high_flag,       \* overheating branch taken
    occ_deadband_narrow_flag,    \* narrow deadband branch taken
    out,                         \* console messages, prompts and 'set' calls, in order
    first_run,                   \* what an earlier invocation was given and what it did
    script,                      \* the file whose __main__ block is running
    occupied_start_time_flag,    \* first value returned by the schedule learner
    occupied_end_time_flag,      \* second value returned by the schedule learner
    main_pc,                     \* position of the __main__ block
    main_out,                    \* schedule 'set' calls and console lines of the __main__ block
    csvfile,                     \* text of the CSV log, character by character
    columns,                     \* column names the log was created with
    appended,                    \* rows handed to append_data_to_csv since the log was created
    sent,                        \* requests sent to the vendor API, in order
    resp,                        \* the response last received or handed to the parser
    ret,                         \* how the last driver call ended
    calls,                       \* number of driver calls made so far
    selection,                   \* the default selection of func_schedule's get_data
    today,                       \* the date of the clock, as a day number
    prev_weekday,                \* func_prev_weekday(today), 0 while unassigned
    prev_two_weekday,            \* func_prev_weekday(prev_weekday), 0 while unassigned
    date_pc                      \* position in the computation of the two dates

vars == <<df_data_in, fault_correction_enable, fault_correction_way, current_time,
          pc, ave_clg_spt_clg_operation, ave_htg_spt_htg_operation,
          ave_clg_spt_occ_operation, ave_htg_spt_occ_operation,
          occ_clg_spt_low_flag, occ_htg_spt_high_flag, occ_deadband_narrow_flag, out,
          first_run, script, occupied_start_time_flag, occupied_end_time_flag, main_pc,
          main_out, csvfile, columns, appended, sent, resp, ret, calls, selection,
          today, prev_weekday, prev_two_weekday, date_pc>>

mainVars == <<script, occupied_start_time_flag, occupied_end_time_flag, main_pc, main_out>>
ioVars == <<csvfile, columns, appended, sent, resp, ret, calls, selection>>
runVars == <<df_data_in, fault_correction_enable, fault_correction_way, current_time,
             pc, ave_clg_spt_clg_operation, ave_htg_spt_htg_operation,
             ave_clg_spt_occ_operation, ave_htg_spt_occ_operation,
             occ_clg_spt_low_flag, occ_htg_spt_high_flag, occ_deadband_narrow_flag, out>>

\* the state outside the invocation of the detector that is under way
dateVars == <<today, prev_weekday, prev_two_weekday, date_pc>>
others == <<first_run, mainVars, ioVars, dateVars>>

(***************************************************************************)
(* Bounds                                                                  *)
(***************************************************************************)
MaxRows == 2
MaxCalls == 2

(***************************************************************************)
(* Preferences and thresholds                                              *)
(***************************************************************************)
\* degF
pref_occ_clg_spt == 74
\* degF
pref_occ_htg_spt == 68
\* 0.5 degF, in hundredths
setpoint_fdd_deviation_thresh == 50
\* 0.5 degF, in hundredths
deadband_fdd_deviation_thresh == 50
\* '6:00' in minutes of the day
pref_occ_start_time_weekday == 360
\* '17:59' in minutes of the day
pref_occ_end_time_weekday == 1079

\* the literal strings of the scheduled correction times, character by character
fault_correction_scheduled_time ==
    << <<"6", ":", "0", "0">>, <<"8", ":", "0", "0">>, <<"1", "5", ":", "0", "0">> >>

(***************************************************************************)
(* Numbers that may be undefined (NaN)                                     *)
(***************************************************************************)
NaN == [nan |-> TRUE, v |-> 0]
Num(x) == [nan |-> FALSE, v |-> x]

\* a comparison with NaN is false
LessOrEqual(a, k) == ~a.nan /\ a.v <= k
Less(a, k) == ~a.nan /\ a.v < k

GreaterOrEqual(a, k) == ~a.nan /\ a.v >= k
Greater(a, k) == ~a.nan /\ a.v > k

\* the binary exponent of a positive value given in hundredths
RECURSIVE Binade(_)
Binade(v) == IF v < 200 THEN 0 ELSE 1 + Binade(v \div 2)

\* a - b in floating point: the outcomes the subtraction can have.  A difference
\* with NaN is NaN.  Two values of the same binade subtract exactly; for two values
\* on either side of a power of two the result can fall short of the decimal
\* difference by a rounding error (64.02 - 63.52 gives 0.4999999999999929).
FloatMinus(a, b) ==
    IF a.nan \/ b.nan THEN {[nan |-> TRUE, v |-> 0, short |-> FALSE]}
    ELSE {[nan |-> FALSE, v |-> a.v - b.v, short |-> sh] :
             sh \in IF Binade(a.v) = Binade(b.v) THEN {FALSE} ELSE {FALSE, TRUE}}

\* difference < k
DiffLess(d, k) == ~d.nan /\ (d.v < k \/ (d.short /\ d.v = k))

(***************************************************************************)
(* Cells of the reading table: the text the vendor API returned            *)
(***************************************************************************)
NumCell(x) == [kind |-> "num", v |-> x]
TextCell == [kind |-> "text", v |-> 0]
NoneCell == [kind |-> "none", v |-> 0]

\* pd.to_numeric(..., errors='coerce')
to_numericMissingAsZero(c) == IF c.kind = "num" THEN Num(c.v) ELSE Num(0)
to_numeric(c) == IF c.kind = "num" THEN Num(c.v) ELSE NaN

RECURSIVE SumSeq(_)
SumSeq(s) == IF s = <<>> THEN 0 ELSE Head(s).v + SumSeq(Tail(s))

\* Series.mean(): NaN entries are skipped; the mean of nothing is NaN.
\* The mean is the fraction num / den (thousandths of a degree).
SeriesMeanEmptyAsZero(col) ==
    LET vals == SelectSeq(col, LAMBDA c : ~c.nan)
    IN  IF vals = <<>> THEN [nan |-> FALSE, num |-> 0, den |-> 1]
        ELSE [nan |-> FALSE, num |-> SumSeq(vals), den |-> Len(vals)]
SeriesMean(col) ==
    LET vals == SelectSeq(col, LAMBDA c : ~c.nan)
    IN  IF vals = <<>> THEN [nan |-> TRUE, num |-> 0, den |-> 1]
        ELSE [nan |-> FALSE, num |-> SumSeq(vals), den |-> Len(vals)]

\* round(x, 2): thousandths num/den to hundredths, ties to the even neighbour
round2(m) ==
    IF m.nan THEN NaN
    ELSE LET d == 10 * m.den
             q == m.num \div d
             r == m.num % d
         IN  Num(IF 2 * r < d THEN q
                 ELSE IF 2 * r > d THEN q + 1
                 ELSE IF q % 2 = 0 THEN q ELSE q + 1)

(***************************************************************************)
(* Row filters                                                             *)
(***************************************************************************)
\* DataFrame.between_time(start, end): both ends included
between_timeEndExcluded(df) ==
    SelectSeq(df, LAMBDA r : pref_occ_start_time_weekday <= r.tod
                             /\ r.tod < pref_occ_end_time_weekday)
between_time(df) ==
    SelectSeq(df, LAMBDA r : pref_occ_start_time_weekday <= r.tod
                             /\ r.tod <= pref_occ_end_time_weekday)

ClgRowsStage1Only(df) ==
    SelectSeq(df, LAMBDA r : r.runStatus = "Cool-Stage1")
ClgRowsAnyStatus(df) == df
ClgRows(df) ==
    SelectSeq(df, LAMBDA r : r.runStatus = "Cool-Stage1" \/ r.runStatus = "Cool-Stage2")

HtgRows(df) ==
    SelectSeq(df, LAMBDA r : r.runStatus = "Heat-Stage1" \/ r.runStatus = "Heat-Stage2")

coolSetting(df) == [i \in 1..Len(df) |-> to_numeric(df[i].coolSetting)]
heatSetting(df) == [i \in 1..Len(df) |-> to_numeric(df[i].heatSetting)]

(***************************************************************************)
(* Clock                                                                   *)
(***************************************************************************)
Digit(n) == CASE n = 0 -> "0" [] n = 1 -> "1" [] n = 2 -> "2" [] n = 3 -> "3"
              [] n = 4 -> "4" [] n = 5 -> "5" [] n = 6 -> "6" [] n = 7 -> "7"
              [] n = 8 -> "8" [] n = 9 -> "9"

\* %H and %M: two digits, zero padded
Pad2(n) == <<Digit(n \div 10), Digit(n % 10)>>

\* current_time.strftime('%H:%M')
current_hour_min == Pad2(current_time.hour) \o <<":">> \o Pad2(current_time.minute)

InList(x, list) == \E i \in 1..Len(list) : list[i] = x

(***************************************************************************)
(* Console and device events of a run                                      *)
(***************************************************************************)
Console(by, msg) == [op |-> "print", by |-> by, msg |-> msg, val |-> 0]
\* input(...) together with what the operator typed
Input(by, ans) == [op |-> "input", by |-> by, msg |-> ans, val |-> 0]
set_cool_temp_setpointOnce(by, value) ==
    IF first_run.ran /\ \E i \in DOMAIN first_run.out :
                           first_run.out[i].op = "set_cool_temp_setpoint"
    THEN [op |-> "print", by |-> by, msg |-> "already set", val |-> value]
    ELSE [op |-> "set_cool_temp_setpoint", by |-> by, msg |-> "", val |-> value]
set_cool_temp_setpointOther(by, value) ==
    [op |-> "set_cool_temp_setpoint", by |-> by, msg |-> "", val |-> pref_occ_htg_spt]
\* pelican.set_cool_temp_setpoint(value, object_type, thermostat_name)
set_cool_temp_setpoint(by, value) ==
    [op |-> "set_cool_temp_setpoint", by |-> by, msg |-> "", val |-> value]
set_heat_temp_setpointLessDeadband(by, value) ==
    [op |-> "set_heat_temp_setpoint", by |-> by, msg |-> "", val |-> value - 6]
\* pelican.set_heat_temp_setpoint(value, object_type, thermostat_name)
set_heat_temp_setpoint(by, value) ==
    [op |-> "set_heat_temp_setpoint", by |-> by, msg |-> "", val |-> value]

If(c, events) == IF c THEN events ELSE <<>>

\* what the operator may type at a prompt
Answers == {"y", "n", "yes"}

(***************************************************************************)
(* Baseline data: conversion, filters and the four rounded means           *)
(***************************************************************************)
df_oper_data_his_occ == between_time(df_data_in)
df_oper_data_his_occ_clg == ClgRows(df_oper_data_his_occ)
df_oper_data_his_occ_htg == HtgRows(df_oper_data_his_occ)

BaselineDataInPlace ==
    /\ pc = "baseline"
    /\ ave_clg_spt_clg_operation' = round2(SeriesMean(coolSetting(df_oper_data_his_occ_clg)))
    /\ ave_htg_spt_htg_operation' = round2(SeriesMean(heatSetting(df_oper_data_his_occ_htg)))
    /\ ave_clg_spt_occ_operation' = round2(SeriesMean(coolSetting(df_oper_data_his_occ)))
    /\ ave_htg_spt_occ_operation' = round2(SeriesMean(heatSetting(df_oper_data_his_occ)))
    /\ df_data_in' = [i \in DOMAIN df_data_in |->
                         [df_data_in[i] EXCEPT
                             !.coolSetting = IF @.kind = "num" THEN @ ELSE NoneCell,
                             !.heatSetting = IF @.kind = "num" THEN @ ELSE NoneCell]]
    /\ pc' = "overcooling"
    /\ UNCHANGED <<fault_correction_enable, fault_correction_way, current_time,
                   occ_clg_spt_low_flag, occ_htg_spt_high_flag, occ_deadband_narrow_flag, out>>
    /\ UNCHANGED others
BaselineData ==
    /\ pc = "baseline"
    /\ ave_clg_spt_clg_operation' = round2(SeriesMean(coolSetting(df_oper_data_his_occ_clg)))
    /\ ave_htg_spt_htg_operation' = round2(SeriesMean(heatSetting(df_oper_data_his_occ_htg)))
    /\ ave_clg_spt_occ_operation' = round2(SeriesMean(coolSetting(df_oper_data_his_occ)))
    /\ ave_htg_spt_occ_operation' = round2(SeriesMean(heatSetting(df_oper_data_his_occ)))
    /\ pc' = "overcooling"
    /\ UNCHANGED <<df_data_in, fault_correction_enable, fault_correction_way, current_time,
                   occ_clg_spt_low_flag, occ_htg_spt_high_flag, occ_deadband_narrow_flag, out>>
    /\ UNCHANGED others

(***************************************************************************)
(* Overcooling detection and correction                                    *)
(***************************************************************************)
OvercoolingFault ==
    Less(ave_clg_spt_clg_operation, 100 * pref_occ_clg_spt - setpoint_fdd_deviation_thresh)

OvercoolingCorrectionUnlessN(ans) ==
    If(fault_correction_enable = "ON",
          <<Console("overcooling", "Implement fault correction")>>
       \o If(fault_correction_way = "Immediate",
             <<set_cool_temp_setpoint("overcooling", pref_occ_clg_spt),
               Console("overcooling", "The fault is corrected")>>)
       \o If(fault_correction_way = "Scheduled",
             If(InList(current_hour_min, fault_correction_scheduled_time),
                <<Console("overcooling", "The fault will be corrected at the scheduled time"),
                  set_cool_temp_setpoint("overcooling", pref_occ_clg_spt)>>))
       \o If(fault_correction_way = "User",
                <<Console("overcooling", "Please correct the fault through the interface"),
                  Input("overcooling", ans)>>
             \o If(ans # "n",
                   <<set_cool_temp_setpoint("overcooling", pref_occ_clg_spt),
                     Console("overcooling", "The fault is corrected")>>)
             \o If(ans = "n",
                   <<Console("overcooling", "No correction is taken")>>)))
    \o If(fault_correction_enable = "OFF",
          <<Console("overcooling", "Fault self correction is not enabled")>>)

OvercoolingCorrectionElseOfOff(ans) ==
    If(fault_correction_enable = "ON",
          <<Console("overcooling", "Implement fault correction")>>
       \o If(fault_correction_way = "Immediate",
             <<set_cool_temp_setpoint("overcooling", pref_occ_clg_spt),
               Console("overcooling", "The fault is corrected")>>)
       \o If(fault_correction_way = "Scheduled",
             If(InList(current_hour_min, fault_correction_scheduled_time),
                <<Console("overcooling", "The fault will be corrected at the scheduled time"),
                  set_cool_temp_setpoint("overcooling", pref_occ_clg_spt)>>))
       \o If(fault_correction_way = "User",
                <<Console("overcooling", "Please correct the fault through the interface"),
                  Input("overcooling", ans)>>
             \o If(ans = "y",
                   <<set_cool_temp_setpoint("overcooling", pref_occ_clg_spt),
                     Console("overcooling", "The fault is corrected")>>)
             \o If(ans = "n",
                   <<Console("overcooling", "No correction is taken")>>)))
    \o (IF fault_correction_enable = "OFF"
        THEN <<Console("overcooling", "Fault self correction is not enabled")>>
        ELSE <<Console("overcooling", "There is no overcooling fault")>>)

OvercoolingCorrection(ans) ==
    If(fault_correction_enable = "ON",
          <<Console("overcooling", "Implement fault correction")>>
       \o If(fault_correction_way = "Immediate",
             <<set_cool_temp_setpoint("overcooling", pref_occ_clg_spt),
               Console("overcooling", "The fault is corrected")>>)
       \o If(fault_correction_way = "Scheduled",
             If(InList(current_hour_min, fault_correction_scheduled_time),
                <<Console("overcooling", "The fault will be corrected at the scheduled time"),
                  set_cool_temp_setpoint("overcooling", pref_occ_clg_spt)>>))
       \o If(fault_correction_way = "User",
                <<Console("overcooling", "Please correct the fault through the interface"),
                  Input("overcooling", ans)>>
             \o If(ans = "y",
                   <<set_cool_temp_setpoint("overcooling", pref_occ_clg_spt),
                     Console("overcooling", "The fault is corrected")>>)
             \o If(ans = "n",
                   <<Console("overcooling", "No correction is taken")>>)))
    \o If(fault_correction_enable = "OFF",
          <<Console("overcooling", "Fault self correction is not enabled")>>)

OvercoolingCheck ==
    /\ pc = "overcooling"
    /\ \E ans \in Answers :
          out' = out \o (IF OvercoolingFault
                         THEN <<Console("overcooling", "There is an overcooling fault")>>
                              \o OvercoolingCorrection(ans)
                         ELSE <<Console("overcooling", "There is no overcooling fault")>>)
    /\ occ_clg_spt_low_flag' = OvercoolingFault
    /\ pc' = "overheating"
    /\ UNCHANGED <<df_data_in, fault_correction_enable, fault_correction_way, current_time,
                   ave_clg_spt_clg_operation, ave_htg_spt_htg_operation,
                   ave_clg_spt_occ_operation, ave_htg_spt_occ_operation,
                   occ_htg_spt_high_flag, occ_deadband_narrow_flag>>
    /\ UNCHANGED others

(***************************************************************************)
(* Overheating detection and correction                                    *)
(***************************************************************************)
OverheatingFault ==
    Greater(ave_htg_spt_htg_operation, 100 * pref_occ_htg_spt + setpoint_fdd_deviation_thresh)

OverheatingCorrection(ans) ==
    If(fault_correction_enable = "ON",
          <<Console("overheating", "Implement fault correction")>>
       \o If(fault_correction_way = "Immediate",
             <<set_heat_temp_setpoint("overheating", pref_occ_htg_spt),
               Console("overheating", "The fault is corrected")>>)
       \o If(fault_correction_way = "Scheduled",
             If(InList(current_hour_min, fault_correction_scheduled_time),
                <<Console("overheating", "The fault will be corrected at the scheduled time"),
                  set_heat_temp_setpoint("overheating", pref_occ_htg_spt)>>))
       \o If(fault_correction_way = "User",
                <<Console("overheating", "Please correct the fault through the interface"),
                  Input("overheating", ans)>>
             \o If(ans = "y",
                   <<set_heat_temp_setpoint("overheating", pref_occ_htg_spt),
                     Console("overheating", "The fault is corrected")>>)
             \o If(ans = "n",
                   <<Console("overheating", "No correction is taken")>>)))
    \o If(fault_correction_enable = "OFF",
          <<Console("overheating", "Fault self correction is not enabled")>>)

OverheatingCheck ==
    /\ pc = "overheating"
    /\ \E ans \in Answers :
          out' = out \o (IF OverheatingFault
                         THEN <<Console("overheating", "There is an overheating fault")>>
                              \o OverheatingCorrection(ans)
                         ELSE <<Console("overheating", "There is no overheating fault")>>)
    /\ occ_htg_spt_high_flag' = OverheatingFault
    /\ pc' = "deadband"
    /\ UNCHANGED <<df_data_in, fault_correction_enable, fault_correction_way, current_time,
                   ave_clg_spt_clg_operation, ave_htg_spt_htg_operation,
                   ave_clg_spt_occ_operation, ave_htg_spt_occ_operation,
                   occ_clg_spt_low_flag, occ_deadband_narrow_flag>>
    /\ UNCHANGED others

(***************************************************************************)
(* Narrow deadband detection and correction                                *)
(***************************************************************************)
\* the difference of the means over the cooling and the heating rows (line 341)
ave_spt_dead_band_operation ==
    FloatMinus(ave_clg_spt_clg_operation, ave_htg_spt_htg_operation)

\* the outcomes of the subtraction at line 344
ave_spt_dead_band_occ_operation ==
    FloatMinus(ave_clg_spt_occ_operation, ave_htg_spt_occ_operation)

DeadbandWrong(d) == DiffLess(d, 0)

DeadbandFault(d) == DiffLess(d, deadband_fdd_deviation_thresh)

DeadbandCorrectionCoolingFirst(ans) ==
       If(fault_correction_way = "Immediate",
          <<set_cool_temp_setpoint("deadband", pref_occ_clg_spt),
            set_heat_temp_setpoint("deadband", pref_occ_htg_spt),
            Console("deadband", "The fault is corrected")>>)
    \o If(fault_correction_way = "Scheduled",
          If(InList(current_hour_min, fault_correction_scheduled_time),
             <<Console("deadband", "The fault will be corrected at the scheduled time"),
               set_heat_temp_setpoint("deadband", pref_occ_htg_spt),
               set_cool_temp_setpoint("deadband", pref_occ_clg_spt)>>))
    \o If(fault_correction_way = "User",
             <<Console("deadband", "Please correct the fault through the interface"),
               Input("deadband", ans)>>
          \o If(ans = "y",
                <<set_heat_temp_setpoint("deadband", pref_occ_htg_spt),
                  set_cool_temp_setpoint("deadband", pref_occ_clg_spt),
                  Console("deadband", "The fault is corrected")>>)
          \o If(ans = "n",
                <<Console("deadband", "No correction is taken")>>))

DeadbandCorrection(ans) ==
       If(fault_correction_way = "Immediate",
          <<set_heat_temp_setpoint("deadband", pref_occ_htg_spt),
            set_cool_temp_setpoint("deadband", pref_occ_clg_spt),
            Console("deadband", "The fault is corrected")>>)
    \o If(fault_correction_way = "Scheduled",
          If(InList(current_hour_min, fault_correction_scheduled_time),
             <<Console("deadband", "The fault will be corrected at the scheduled time"),
               set_heat_temp_setpoint("deadband", pref_occ_htg_spt),
               set_cool_temp_setpoint("deadband", pref_occ_clg_spt)>>))
    \o If(fault_correction_way = "User",
             <<Console("deadband", "Please correct the fault through the interface"),
               Input("deadband", ans)>>
          \o If(ans = "y",
                <<set_heat_temp_setpoint("deadband", pref_occ_htg_spt),
                  set_cool_temp_setpoint("deadband", pref_occ_clg_spt),
                  Console("deadband", "The fault is corrected")>>)
          \o If(ans = "n",
                <<Console("deadband", "No correction is taken")>>))

DeadbandCheck ==
    /\ pc = "deadband"
    /\ \E ans \in Answers, d \in ave_spt_dead_band_occ_operation :
          /\ out' = out
                 \o If(DeadbandWrong(d),
                       <<Console("deadband", "Cooling setpoint is lower than the heating setpoint")>>)
                 \o If(DeadbandFault(d), DeadbandCorrection(ans))
          /\ occ_deadband_narrow_flag' = DeadbandFault(d)
    /\ pc' = "done"
    /\ UNCHANGED <<df_data_in, fault_correction_enable, fault_correction_way, current_time,
                   ave_clg_spt_clg_operation, ave_htg_spt_htg_operation,
                   ave_clg_spt_occ_operation, ave_htg_spt_occ_operation,
                   occ_clg_spt_low_flag, occ_htg_spt_high_flag>>
    /\ UNCHANGED others

Next == BaselineData \/ OvercoolingCheck \/ OverheatingCheck \/ DeadbandCheck

(***************************************************************************)
(* Inputs of a run                                                         *)
(***************************************************************************)
Row(tod, runStatus, cool, heat) ==
    [tod |-> tod, runStatus |-> runStatus, coolSetting |-> cool, heatSetting |-> heat]

\* reading tables of 1 .. MaxRows rows
Tables(Rows) == UNION {[1..k -> Rows] : k \in 1..MaxRows}

\* no invocation came before this one
NoRun == [ran |-> FALSE, df_data_in |-> <<>>, current_time |-> [hour |-> 0, minute |-> 0],
          flags |-> <<FALSE, FALSE, FALSE>>, out |-> <<>>]

\* no response received, no driver call made
NoResp == [wellformed |-> TRUE, has |-> {}, keys |-> {}, Thermostat |-> <<>>,
           ThermostatHistory |-> <<>>]
NoRet == [op |-> "", kind |-> "none", exc |-> "", val |-> <<>>]

\* the default of the selection parameter of func_schedule's get_data, as the
\* def statement builds it (one dict, made once), and with the two entries that
\* a history request adds to the selection it is given
DefaultSelection == {"name"}
HistorySelection(sel) == sel \cup {"startDateTime", "endDateTime"}

IdleMain ==
    /\ script = "none"
    /\ occupied_start_time_flag = 0
    /\ occupied_end_time_flag = 0
    /\ main_pc = "idle"
    /\ main_out = <<>>

IdleIo ==
    /\ csvfile = <<>>
    /\ columns = <<>>
    /\ appended = <<>>
    /\ sent = <<>>
    /\ resp = NoResp
    /\ ret = NoRet
    /\ calls = 0
    /\ selection = DefaultSelection

IdleDate ==
    /\ today = 0
    /\ prev_weekday = 0
    /\ prev_two_weekday = 0
    /\ date_pc = "idle"

Idle == first_run = NoRun /\ IdleMain /\ IdleIo /\ IdleDate

InitRunOnly(Rows, Enables, Ways, Clocks) ==
    /\ df_data_in \in Tables(Rows)
    /\ fault_correction_enable \in Enables
    /\ fault_correction_way \in Ways
    /\ current_time \in Clocks
    /\ pc = "baseline"
    /\ ave_clg_spt_clg_operation = NaN
    /\ ave_htg_spt_htg_operation = NaN
    /\ ave_clg_spt_occ_operation = NaN
    /\ ave_htg_spt_occ_operation = NaN
    /\ occ_clg_spt_low_flag = FALSE
    /\ occ_htg_spt_high_flag = FALSE
    /\ occ_deadband_narrow_flag = FALSE
    /\ out = <<>>

InitRun(Rows, Enables, Ways, Clocks) == Idle /\ InitRunOnly(Rows, Enables, Ways, Clocks)

\* Runs under every correction setting and clock, on whole-degree readings
CorrectionRows ==
    {Row(720, rs, NumCell(sp[1]), NumCell(sp[2])) :
        rs \in {"Cool-Stage1", "Heat-Stage1", "Off"},
        sp \in {<<70000, 68000>>, <<70000, 70000>>, <<74000, 70000>>}}
    \cup {Row(1200, "Cool-Stage1", NumCell(70000), NumCell(70000))}

Enables == {"ON", "OFF", "Auto"}
Ways == {"Immediate", "Scheduled", "User", "Manual"}
Clocks == {[hour |-> 6, minute |-> 0], [hour |-> 8, minute |-> 0],
           [hour |-> 15, minute |-> 0], [hour |-> 15, minute |-> 1],
           [hour |-> 7, minute |-> 0]}

Init == InitRun(CorrectionRows, Enables, Ways, Clocks)

Spec == Init /\ [][Next]_vars

\* Runs on readings with fractional, missing and non-numeric setpoints
DetectSetpoints ==
    {<<NumCell(70000), NumCell(68000)>>,
     <<NumCell(73497), NumCell(73000)>>,
     <<NumCell(73497), NumCell(73503)>>,
     <<NumCell(73500), NumCell(68500)>>,
     <<NumCell(74000), NumCell(68504)>>,
     <<NumCell(70000), NumCell(74000)>>,
     <<NumCell(64020), NumCell(63520)>>,
     <<TextCell, NumCell(70000)>>,
     <<NoneCell, NoneCell>>}

DetectRows ==
    {Row(720, rs, sp[1], sp[2]) :
        rs \in {"Cool-Stage1", "Cool-Stage2", "Heat-Stage1", "Heat-Stage2", "Off"},
        sp \in DetectSetpoints}
    \cup {Row(1200, rs, sp[1], sp[2]) : rs \in {"Cool-Stage1", "Heat-Stage1"},
                                        sp \in {<<NumCell(70000), NumCell(74000)>>}}

InitDetect == InitRun(DetectRows, {"ON"}, {"Immediate", "User"}, {[hour |-> 7, minute |-> 0]})

SpecDetect == InitDetect /\ [][Next]_vars

(***************************************************************************)
(* Two invocations of the detector, one after the other                    *)
(***************************************************************************)
\* a reading with the date of its timestamp, as a day number
RowOn(day, tod, runStatus, cool, heat) ==
    [day |-> day, tod |-> tod, runStatus |-> runStatus,
     coolSetting |-> cool, heatSetting |-> heat]

\* date.weekday() of a day number (the proleptic ordinal, day 1 a Monday):
\* 0 .. 4 are Monday .. Friday, 5 and 6 are Saturday and Sunday
weekday(day) == (day + 6) % 7

\* setpoint_setting_fdd_correction(df_data_in) is called again: the literals are
\* assigned again, the clock is read again, and every local starts afresh
Invoke(Rows, Times) ==
    /\ pc = "done"
    /\ ~first_run.ran
    /\ first_run' = [ran |-> TRUE, df_data_in |-> df_data_in, current_time |-> current_time,
                     flags |-> <<occ_clg_spt_low_flag, occ_htg_spt_high_flag,
                                 occ_deadband_narrow_flag>>,
                     out |-> out]
    /\ df_data_in' \in Tables(Rows)
    /\ current_time' \in Times
    /\ pc' = "baseline"
    /\ ave_clg_spt_clg_operation' = NaN
    /\ ave_htg_spt_htg_operation' = NaN
    /\ ave_clg_spt_occ_operation' = NaN
    /\ ave_htg_spt_occ_operation' = NaN
    /\ occ_clg_spt_low_flag' = FALSE
    /\ occ_htg_spt_high_flag' = FALSE
    /\ occ_deadband_narrow_flag' = FALSE
    /\ out' = <<>>
    /\ UNCHANGED <<fault_correction_enable, fault_correction_way, mainVars, ioVars, dateVars>>

\* the clock of the runs: day 30, at a scheduled time and at another time
WindowClocks == {[day |-> 30, hour |-> 15, minute |-> 0], [day |-> 30, hour |-> 7, minute |-> 0]}

\* readings at and around the ends of the occupied hours (day 29, a Monday),
\* and an old reading (day 20, a Saturday)
WindowRows ==
    {RowOn(29, 360, "Cool-Stage1", NumCell(70000), NumCell(68000)),
     RowOn(29, 1079, "Cool-Stage1", NumCell(74000), NumCell(68000)),
     RowOn(29, 359, "Cool-Stage1", NumCell(70000), NumCell(68000)),
     RowOn(29, 1080, "Cool-Stage1", NumCell(70000), NumCell(70000)),
     RowOn(20, 720, "Cool-Stage1", NumCell(70000), NumCell(68000))}

InitTwoRuns == InitRun(WindowRows, {"ON"}, {"Scheduled", "User"}, WindowClocks)

NextTwoRuns == Next \/ Invoke(WindowRows, WindowClocks)

SpecTwoRuns == InitTwoRuns /\ [][NextTwoRuns]_vars

\* Two invocations on readings of every kind of run status, all of them within
\* the occupied hours but one
StatusRows ==
    {Row(720, "Cool-Stage1", NumCell(70000), NumCell(68000)),
     Row(720, "Cool-Stage2", NumCell(74000), NumCell(68000)),
     Row(720, "Heat-Stage1", NumCell(74000), NumCell(70000)),
     Row(720, "Heat-Stage2", NumCell(74000), NumCell(68000)),
     Row(720, "Off", NumCell(70000), NumCell(72000)),
     Row(720, "Off", NumCell(74000), NumCell(68000)),
     Row(1200, "Cool-Stage1", NumCell(60000), NumCell(80000))}

StatusClocks == {[hour |-> 7, minute |-> 0]}

InitStatus == InitRun(StatusRows, {"ON"}, {"Immediate"}, StatusClocks)

NextStatus == Next \/ Invoke(StatusRows, StatusClocks)

SpecStatus == InitStatus /\ [][NextStatus]_vars

(***************************************************************************)
(* The __main__ blocks: detector, schedule learner, schedule correction    *)
(***************************************************************************)
pref_unocc_clg_spt == 85
pref_unocc_htg_spt == 62

Driver == "pelican_openapi_io_driver"
ScheduleFdc == "func_schedule_fault_detection_correction"

\* pc.set_schedule(day, start_time, duration, mode='Auto', heat_temp, cool_temp, ...)
set_schedule(by, day, start_time, duration, heat_temp, cool_temp) ==
    [op |-> "set_schedule", by |-> by, msg |-> "", day |-> day, start_time |-> start_time,
     duration |-> duration, heat_temp |-> heat_temp, cool_temp |-> cool_temp]

\* print(msg) in a __main__ block
MainConsole(by, msg) ==
    [op |-> "print", by |-> by, msg |-> msg, day |-> "", start_time |-> "",
     duration |-> 0, heat_temp |-> 0, cool_temp |-> 0]

\* setpoint_setting_fdd_correction(df_data_in) has returned to the driver's __main__
DetectorReturns ==
    /\ script = Driver
    /\ main_pc = "detector"
    /\ pc = "done"
    /\ main_pc' = "learn"
    /\ UNCHANGED <<runVars, first_run, dateVars, ioVars, script, occupied_start_time_flag,
                   occupied_end_time_flag, main_out>>

\* the two values the schedule learner returns
LearnerFlags == {0, 1}

\* occupied_start_time_flag, occupied_end_time_flag = pelican_learn_schedule(...)
\*                                                  = schedule_detection(...)
pelican_learn_schedule ==
    /\ main_pc = "learn"
    /\ occupied_start_time_flag' \in LearnerFlags
    /\ occupied_end_time_flag' \in LearnerFlags
    /\ main_pc' = "start"
    /\ UNCHANGED <<runVars, first_run, dateVars, ioVars, script, main_out>>

OccupiedStartCorrection ==
    /\ main_pc = "start"
    /\ main_out' = main_out
          \o If(occupied_start_time_flag = 1,
                IF script = Driver
                THEN <<set_schedule("start", "Friday", "06:00:00", 2,
                                    pref_occ_htg_spt, pref_occ_clg_spt)>>
                ELSE <<set_schedule("start", "Monday", "06:00", 1, 68, 74)>>)
          \o If(script = ScheduleFdc,
                <<MainConsole("start", "The new occupied start time has been set!")>>)
    /\ main_pc' = "end"
    /\ UNCHANGED <<runVars, first_run, dateVars, ioVars, script, occupied_start_time_flag,
                   occupied_end_time_flag>>

OccupiedEndCorrectionElse ==
    /\ main_pc = "end"
    /\ main_out' = main_out
          \o If(occupied_end_time_flag = 1 /\ occupied_start_time_flag # 1,
                IF script = Driver
                THEN <<set_schedule("end", "Friday", "18:00:00", 2,
                                    pref_unocc_htg_spt, pref_unocc_clg_spt)>>
                ELSE <<set_schedule("end", "Monday", "18:00", 2, 62, 85),
                       MainConsole("end", "The new occupied end time has been set!")>>)
    /\ main_pc' = "exit"
    /\ UNCHANGED <<runVars, first_run, dateVars, ioVars, script, occupied_start_time_flag,
                   occupied_end_time_flag>>

OccupiedEndCorrection ==
    /\ main_pc = "end"
    /\ main_out' = main_out
          \o If(occupied_end_time_flag = 1,
                IF script = Driver
                THEN <<set_schedule("end", "Friday", "18:00:00", 2,
                                    pref_unocc_htg_spt, pref_unocc_clg_spt)>>
                ELSE <<set_schedule("end", "Monday", "18:00", 2, 62, 85),
                       MainConsole("end", "The new occupied end time has been set!")>>)
    /\ main_pc' = "exit"
    /\ UNCHANGED <<runVars, first_run, dateVars, ioVars, script, occupied_start_time_flag,
                   occupied_end_time_flag>>

\* readings handed to the __main__ blocks
MainRows ==
    {Row(720, "Cool-Stage1", NumCell(70000), NumCell(68000)),
     Row(720, "Heat-Stage1", NumCell(74000), NumCell(70000)),
     Row(720, "Off", NumCell(74000), NumCell(70000)),
     Row(720, "Cool-Stage1", TextCell, NumCell(70000))}

\* the driver's __main__ calls the detector first; the other __main__ goes
\* straight to the schedule learner with the table it read
InitMain ==
    /\ first_run = NoRun
    /\ IdleIo
    /\ IdleDate
    /\ script \in {Driver, ScheduleFdc}
    /\ occupied_start_time_flag = 0
    /\ occupied_end_time_flag = 0
    /\ main_out = <<>>
    /\ InitRunOnly(MainRows, {"ON"}, {"User"}, {[hour |-> 7, minute |-> 0]})
    /\ main_pc = IF script = Driver THEN "detector" ELSE "learn"

\* the detector runs only inside the driver's __main__
DetectorStep == script = Driver /\ main_pc = "detector" /\ Next

NextMain ==
    \/ DetectorStep
    \/ DetectorReturns
    \/ pelican_learn_schedule
    \/ OccupiedStartCorrection
    \/ OccupiedEndCorrection

SpecMain == InitMain /\ [][NextMain]_vars

(***************************************************************************)
(* The CSV log.  The text of the file is a sequence of characters; a piece *)
(* of ordinary text (no comma, quote or line break in it) counts as one    *)
(* character.                                                              *)
(***************************************************************************)
COMMA == ","
QUOTE == "QUOTE"
CR == "CR"
LF == "LF"

\* a value of a row: None, or a string
None == [none |-> TRUE, text |-> <<>>]
Text(t) == [none |-> FALSE, text |-> t]

\* csv.writer writes None as the empty string
Str(f) == IF f.none THEN <<>> ELSE f.text

RECURSIVE DoubleQuotes(_)
DoubleQuotes(t) ==
    IF t = <<>> THEN <<>>
    ELSE (IF Head(t) = QUOTE THEN <<QUOTE, QUOTE>> ELSE <<Head(t)>>) \o DoubleQuotes(Tail(t))

\* QUOTE_MINIMAL: a field is quoted when it holds the delimiter, the quote
\* character or a character of a line break
WriteFieldBare(f) == Str(f)
WriteField(f) ==
    LET t == Str(f)
    IN  IF \E i \in DOMAIN t : t[i] \in {COMMA, QUOTE, CR, LF}
        THEN <<QUOTE>> \o DoubleQuotes(t) \o <<QUOTE>>
        ELSE t

RECURSIVE JoinFields(_)
JoinFields(row) ==
    IF row = <<>> THEN <<>>
    ELSE IF Len(row) = 1 THEN WriteField(row[1])
    ELSE WriteField(Head(row)) \o <<COMMA>> \o JoinFields(Tail(row))

\* csv.writer(csvfile, delimiter=',').writerow(data): a row of one empty field
\* is written as a pair of quotes, the line ends with CR LF
writerow(data) ==
    (IF Len(data) = 1 /\ Str(data[1]) = <<>> THEN <<QUOTE, QUOTE>> ELSE JoinFields(data))
    \o <<CR, LF>>

\* pd.DataFrame(columns=columns).to_csv(filename, index=False): the header
\* line, ended by the line separator of the platform
to_csv(cols, linesep) == JoinFields(cols) \o linesep

\* open(filename, 'a', newline='') and writerow(data)
AppendRowTruncating(file, data) == writerow(data)
AppendRow(file, data) == file \o writerow(data)

\* csv.reader, dialect excel: one character in one state of the reader
SaveField(p) == [p EXCEPT !.row = Append(p.row, Text(p.field)), !.field = <<>>]
AddChar(p, c) == [p EXCEPT !.field = Append(p.field, c)]
To(p, st) == [p EXCEPT !.state = st]

ReaderChar(p, c) ==
    LET st == IF p.state = "START_RECORD" /\ c \notin {CR, LF} THEN "START_FIELD" ELSE p.state
    IN  CASE st = "START_RECORD" -> To(p, "EAT_CRNL")
          [] st = "START_FIELD" ->
                 IF c \in {CR, LF} THEN To(SaveField(p), "EAT_CRNL")
                 ELSE IF c = QUOTE THEN To(p, "IN_QUOTED_FIELD")
                 ELSE IF c = COMMA THEN To(SaveField(p), "START_FIELD")
                 ELSE To(AddChar(p, c), "IN_FIELD")
          [] st = "IN_FIELD" ->
                 IF c \in {CR, LF} THEN To(SaveField(p), "EAT_CRNL")
                 ELSE IF c = COMMA THEN To(SaveField(p), "START_FIELD")
                 ELSE AddChar(p, c)
          [] st = "IN_QUOTED_FIELD" ->
                 IF c = QUOTE THEN To(p, "QUOTE_IN_QUOTED_FIELD") ELSE AddChar(p, c)
          [] st = "QUOTE_IN_QUOTED_FIELD" ->
                 IF c = QUOTE THEN To(AddChar(p, c), "IN_QUOTED_FIELD")
                 ELSE IF c = COMMA THEN To(SaveField(p), "START_FIELD")
                 ELSE IF c \in {CR, LF} THEN To(SaveField(p), "EAT_CRNL")
                 ELSE To(AddChar(p, c), "IN_FIELD")
          [] st = "EAT_CRNL" ->
                 IF c \in {CR, LF} THEN p ELSE To(p, "ERROR")
          [] st = "ERROR" -> p

\* the end of a line of the file: a record ends unless a quoted field is open
ReaderEndOfLine(p) ==
    LET q == CASE p.state \in {"START_FIELD", "IN_FIELD", "QUOTE_IN_QUOTED_FIELD"} ->
                      To(SaveField(p), "START_RECORD")
               [] p.state = "EAT_CRNL" -> To(p, "START_RECORD")
               [] OTHER -> p
    IN  IF q.state = "START_RECORD"
        THEN [q EXCEPT !.rows = Append(q.rows, q.row), !.row = <<>>]
        ELSE q

\* lines end at LF, at CR LF and at a CR that no LF follows
EndsLine(t, j) == t[j] = LF \/ (t[j] = CR /\ (j = Len(t) \/ t[j + 1] # LF))

\* the last position of the line that starts at position i
LineEnd(t, i) ==
    LET ends == {j \in i..Len(t) : EndsLine(t, j)}
    IN  IF ends = {} THEN Len(t) ELSE CHOOSE j \in ends : \A k \in ends : j <= k

\* the reader after the characters of one line
RECURSIVE ReadLine(_, _)
ReadLine(t, p) ==
    IF t = <<>> \/ p.state = "ERROR" THEN p
    ELSE ReadLine(Tail(t), ReaderChar(p, Head(t)))

\* the reader after the lines of the file from position i on
RECURSIVE Reader(_, _, _)
Reader(t, i, p) ==
    IF i > Len(t) \/ p.state = "ERROR" THEN p
    ELSE LET j == LineEnd(t, i)
         IN  Reader(t, j + 1, ReaderEndOfLine(ReadLine(SubSeq(t, i, j), p)))

\* list(csv.reader(open(filename, newline=''))): the rows of the file
ReadCsv(file) ==
    Reader(file, 1, [state |-> "START_RECORD", field |-> <<>>, row |-> <<>>,
                     rows |-> <<>>]).rows

(***************************************************************************)
(* Responses of the vendor API and the calls of the driver                 *)
(***************************************************************************)
\* the attributes get_data reads from a Thermostat, in the order of the row
ThermostatKeys ==
    <<"name", "serialNo", "system", "temperature", "heatSetting", "coolSetting", "fan",
      "status", "humidity", "humidifySetting", "dehumidifySetting", "co2Setting",
      "outsideVentilation", "minHeatSetting", "maxHeatSetting", "minCoolSetting",
      "maxCoolSetting">>

column_names ==
    <<Text(<<"Date">>), Text(<<"Name">>), Text(<<"Serial_Number">>),
      Text(<<"Thermostat_Mode">>), Text(<<"Current_Temperatue">>),
      Text(<<"Heating_Setpoint">>), Text(<<"Cooling_Setpoint">>), Text(<<"Fan_Mode">>),
      Text(<<"Thermostat_Status">>), Text(<<"Current_Humidity">>), Text(<<"Min_humidity">>),
      Text(<<"Max_Humidity">>), Text(<<"Demand_Ventilation">>),
      Text(<<"Outside_Ventilation">>), Text(<<"Lowest_Allowable_Heating_SetPoint">>),
      Text(<<"Highest_Allowable_Heating_SetPoint">>),
      Text(<<"Lowest_Allowable_Cooling_SetPoint">>),
      Text(<<"Highest_Allowable_Cooling_SetPoint">>)>>

AllKeys == {ThermostatKeys[i] : i \in DOMAIN ThermostatKeys} \cup {"groupName"}

\* a parsed Thermostat element: an empty element is None
Thermostat(name, humidity, keys) ==
    [wellformed |-> TRUE, has |-> {"Thermostat"}, keys |-> keys,
     Thermostat |-> [k \in AllKeys |-> IF k = "name" THEN name
                                       ELSE IF k = "humidity" THEN humidity
                                       ELSE Text(<<"72">>)],
     ThermostatHistory |-> <<>>]

\* a response that is not XML
Malformed == [wellformed |-> FALSE, has |-> {}, keys |-> {}, Thermostat |-> <<>>,
              ThermostatHistory |-> <<>>]

\* a result that carries a message and no ThermostatHistory
ErrorMessage == [wellformed |-> TRUE, has |-> {"message"}, keys |-> {}, Thermostat |-> <<>>,
                 ThermostatHistory |-> <<>>]

\* History of a device: the key is absent, the element is empty (None), it
\* holds one time point (a dict) or several (a list)
Stat(name, kind, points) == [name |-> name, History |-> [kind |-> kind, points |-> points]]

History(stats) ==
    [wellformed |-> TRUE, has |-> {"ThermostatHistory"}, keys |-> {}, Thermostat |-> <<>>,
     ThermostatHistory |-> stats]

ThermostatResponses ==
    {Thermostat(Text(<<"Lobby">>), Text(<<"40">>), AllKeys),
     Thermostat(Text(<<"Lobby", COMMA, "East">>), None, AllKeys \ {"groupName"}),
     Thermostat(Text(<<"Lobby">>), Text(<<"40">>), AllKeys \ {"maxCoolSetting"}),
     Malformed}

WithHistory == Stat("A", "list", <<"t1", "t2">>)
OtherWithHistory == Stat("C", "list", <<"t3", "t4">>)
NoHistory == Stat("B", "absent", <<>>)
EmptyHistory == Stat("B", "none", <<>>)
OnePoint == Stat("A", "dict", <<"t1">>)

HistoryResponses ==
    {History(<<WithHistory>>), History(<<NoHistory>>), History(<<EmptyHistory>>),
     History(<<OnePoint>>), History(<<NoHistory, WithHistory>>),
     History(<<WithHistory, NoHistory>>), History(<<WithHistory, OtherWithHistory>>),
     ErrorMessage, Malformed}

Raised(op, exc) == [op |-> op, kind |-> "raised", exc |-> exc, val |-> <<>>]
Returned(op, val) == [op |-> op, kind |-> "returned", exc |-> "", val |-> val]

\* xmltodict.parse(resp.content): raises ExpatError on text that is not XML
xmltodict_parseLenient(r) == FALSE
xmltodict_parse(r) == ~r.wellformed

\* the row get_data builds: the time of the poll, then the attributes
PollRow(r) == <<Text(<<"now">>)>> \o [i \in DOMAIN ThermostatKeys |-> r.Thermostat[ThermostatKeys[i]]]

Request(op, object_type) == [op |-> op, object_type |-> object_type]

\* pelican_openapi_io_driver.pelican.get_data: for a history request the names
\* start and end are read, which are bound nowhere (NameError before anything
\* is stored or sent); a Thermostat request logs one row
get_data(object_type, r) ==
    /\ calls < MaxCalls
    /\ calls' = calls + 1
    /\ IF object_type = "ThermostatHistory"
       THEN /\ ret' = Raised("get_data", "NameError")
            /\ UNCHANGED <<sent, resp, csvfile, appended>>
       ELSE /\ sent' = Append(sent, Request("get_data", "Thermostat"))
            /\ resp' = r
            /\ IF xmltodict_parse(r)
               THEN ret' = Raised("get_data", "ExpatError") /\ UNCHANGED <<csvfile, appended>>
               ELSE IF "Thermostat" \notin r.has
                          \/ \E i \in DOMAIN ThermostatKeys : ThermostatKeys[i] \notin r.keys
               THEN ret' = Raised("get_data", "KeyError") /\ UNCHANGED <<csvfile, appended>>
               ELSE /\ csvfile' = AppendRow(csvfile, PollRow(r))
                    /\ appended' = Append(appended, PollRow(r))
                    /\ ret' = Returned("get_data", <<>>)
    /\ UNCHANGED <<runVars, first_run, dateVars, mainVars, selection, columns>>

\* the loop of pelican_openapi_io_driver.pelican.parse_historical_data over the
\* devices: acc.bound tells whether df_his_data_out has been assigned
RECURSIVE ParseStats(_, _)
ParseStats(stats, acc) ==
    IF stats = <<>> \/ acc.exc # "" THEN acc
    ELSE LET stat == Head(stats)
             kind == stat.History.kind
         IN  ParseStats(Tail(stats),
                CASE kind = "absent" ->
                       [acc EXCEPT !.log = Append(acc.log, <<stat.name, "contains no History">>)]
                  [] kind = "none" ->
                       [acc EXCEPT !.log = Append(acc.log, <<stat.name, "History object is None">>)]
                  [] kind = "dict" -> [acc EXCEPT !.exc = "AttributeError"]
                  [] kind = "list" ->
                       [acc EXCEPT !.bound = TRUE,
                                   !.df_his_data_out = [Name |-> stat.name,
                                                        data |-> stat.History.points],
                                   !.his_collector = Append(acc.his_collector, stat.name),
                                   !.log = Append(acc.log, <<stat.name, "Parsing">>)])

NoTable == [Name |-> "", data |-> <<>>]

parse_historical_data(r) ==
    IF "ThermostatHistory" \notin r.has THEN Raised("get_historical_data", "KeyError")
    ELSE LET acc == ParseStats(r.ThermostatHistory,
                               [bound |-> FALSE, df_his_data_out |-> NoTable,
                                his_collector |-> <<>>, log |-> <<>>, exc |-> ""])
         IN  IF acc.exc # "" THEN Raised("get_historical_data", acc.exc)
             ELSE IF ~acc.bound THEN Raised("get_historical_data", "UnboundLocalError")
             ELSE Returned("get_historical_data",
                           [df |-> acc.df_his_data_out, his_collector |-> acc.his_collector,
                            log |-> acc.log])

\* pelican_openapi_io_driver.pelican.get_historical_data
get_historical_data(r) ==
    /\ calls < MaxCalls
    /\ calls' = calls + 1
    /\ sent' = Append(sent, Request("get_historical_data", "ThermostatHistory"))
    /\ resp' = r
    /\ ret' = IF xmltodict_parse(r) THEN Raised("get_historical_data", "ExpatError")
              ELSE parse_historical_data(r)
    /\ UNCHANGED <<runVars, first_run, dateVars, mainVars, selection, csvfile, columns, appended>>

\* a request built from a selection
RequestWith(op, object_type, sel) ==
    [op |-> op, object_type |-> object_type, selection |-> sel]

\* func_schedule_fault_detection_correction.pelican.get_data called without a
\* selection argument: a history request stores start and end in the selection
\* it was given, which is the default dict itself, and returns the parsed
\* response; a Thermostat request logs one row
fdc_get_data(object_type, r) ==
    /\ calls < MaxCalls
    /\ calls' = calls + 1
    /\ selection' = IF object_type = "ThermostatHistory" THEN HistorySelection(selection)
                    ELSE selection
    /\ sent' = Append(sent, RequestWith("fdc_get_data", object_type, selection'))
    /\ resp' = r
    /\ IF xmltodict_parse(r)
       THEN ret' = Raised("fdc_get_data", "ExpatError") /\ UNCHANGED <<csvfile, appended>>
       ELSE IF object_type = "ThermostatHistory"
       THEN ret' = Returned("fdc_get_data", r) /\ UNCHANGED <<csvfile, appended>>
       ELSE IF "Thermostat" \notin r.has \/ AllKeys \ r.keys # {}
       THEN ret' = Raised("fdc_get_data", "KeyError") /\ UNCHANGED <<csvfile, appended>>
       ELSE /\ csvfile' = AppendRow(csvfile, PollRow(r))
            /\ appended' = Append(appended, PollRow(r))
            /\ ret' = Returned("fdc_get_data", <<>>)
    /\ UNCHANGED <<runVars, first_run, dateVars, mainVars, columns>>

\* the row func_schedule_fault_detection_correction.pelican.parse_historical_data
\* logs for one time point: the four limits are not in the history and are None
HistoryRow(name, timestamp) ==
    <<Text(<<timestamp>>), Text(<<name>>)>> \o [i \in 1..12 |-> Text(<<"72">>)]
    \o <<None, None, None, None>>

RECURSIVE AppendRows(_, _)
AppendRows(file, rows) ==
    IF rows = <<>> THEN file ELSE AppendRows(AppendRow(file, Head(rows)), Tail(rows))

\* func_schedule_fault_detection_correction.pelican.parse_historical_data(data_dict, filename):
\* only the first device is read
fdc_parse_historical_data(r) ==
    /\ calls < MaxCalls
    /\ calls' = calls + 1
    /\ r.has = {"ThermostatHistory"}
    /\ resp' = r
    /\ LET stat == r.ThermostatHistory[1]
           kind == stat.History.kind
           rows == [i \in DOMAIN stat.History.points |->
                       HistoryRow(stat.name, stat.History.points[i])]
       IN  CASE kind = "absent" ->
                  ret' = Raised("fdc_parse_historical_data", "UnboundLocalError")
                  /\ UNCHANGED <<csvfile, appended>>
             [] kind \in {"none", "dict"} ->
                  ret' = Raised("fdc_parse_historical_data", "AttributeError")
                  /\ UNCHANGED <<csvfile, appended>>
             [] kind = "list" ->
                  /\ csvfile' = AppendRows(csvfile, rows)
                  /\ appended' = appended \o rows
                  /\ ret' = Returned("fdc_parse_historical_data", <<>>)
    /\ UNCHANGED <<runVars, first_run, dateVars, mainVars, selection, columns, sent>>

\* pelican.create_csv(columns, filename): the file is written anew; the log is
\* created once, before its first row
create_csv(cols, linesep) ==
    /\ columns = <<>>
    /\ appended = <<>>
    /\ csvfile' = to_csv(cols, linesep)
    /\ columns' = cols
    /\ appended' = <<>>
    /\ ret' = Returned("create_csv", <<>>)
    /\ UNCHANGED <<runVars, first_run, dateVars, mainVars, selection, sent, resp, calls>>

\* pelican.append_data_to_csv(data, filename)
append_data_to_csv(data) ==
    /\ calls < MaxCalls
    /\ calls' = calls + 1
    /\ csvfile' = AppendRow(csvfile, data)
    /\ appended' = Append(appended, data)
    /\ ret' = Returned("append_data_to_csv", <<>>)
    /\ UNCHANGED <<runVars, first_run, dateVars, mainVars, selection, columns, sent, resp>>

\* rows handed to append_data_to_csv directly
CsvFields == {None, Text(<<>>), Text(<<"a">>), Text(<<"a", COMMA, "b">>),
              Text(<<QUOTE, "a", QUOTE>>), Text(<<"a", LF, "b">>)}
CsvRows == {<<f>> : f \in CsvFields} \cup {<<f, Text(<<"a">>)>> : f \in CsvFields}

CsvColumns == {column_names, <<Text(<<"c1">>), Text(<<"c2">>)>>}

\* os.linesep
LineSeps == {<<LF>>, <<CR, LF>>}

\* no detector run is under way
IdleRun ==
    /\ df_data_in = <<>>
    /\ fault_correction_enable = "ON"
    /\ fault_correction_way = "User"
    /\ current_time = [hour |-> 0, minute |-> 0]
    /\ pc = "done"
    /\ ave_clg_spt_clg_operation = NaN
    /\ ave_htg_spt_htg_operation = NaN
    /\ ave_clg_spt_occ_operation = NaN
    /\ ave_htg_spt_occ_operation = NaN
    /\ occ_clg_spt_low_flag = FALSE
    /\ occ_htg_spt_high_flag = FALSE
    /\ occ_deadband_narrow_flag = FALSE
    /\ out = <<>>

InitDriver == IdleRun /\ Idle

NextDriver ==
    \/ \E r \in ThermostatResponses : get_data("Thermostat", r)
    \/ get_data("ThermostatHistory", NoResp)
    \/ \E r \in HistoryResponses : get_historical_data(r)
    \/ \E r \in ThermostatResponses : fdc_get_data("Thermostat", r)
    \/ \E r \in {History(<<WithHistory>>), Malformed} : fdc_get_data("ThermostatHistory", r)
    \/ \E r \in {History(<<WithHistory>>), History(<<NoHistory>>),
                  History(<<EmptyHistory>>)} : fdc_parse_historical_data(r)
    \/ \E cols \in CsvColumns, linesep \in LineSeps : create_csv(cols, linesep)
    \/ \E data \in CsvRows : append_data_to_csv(data)

SpecDriver == InitDriver /\ [][NextDriver]_vars

(***************************************************************************)
(* The two previous weekdays of the lookback (duration 48)                 *)
(***************************************************************************)
\* the dates the clock may show: day 1 (date.min, a Monday) .. MaxDay
MaxDay == 42

\* date.min as a day number
date_min == 1

\* adate - timedelta(days=1): a day number, or 0 for OverflowError ('date value
\* out of range') when the result would lie before date.min
DayBefore(adate) == IF adate - 1 < date_min THEN 0 ELSE adate - 1

\* while adate.weekday() > 4: adate -= timedelta(days=1)
RECURSIVE WhileWeekend(_)
WhileWeekend(adate) ==
    IF adate = 0 THEN 0
    ELSE IF weekday(adate) > 4 THEN WhileWeekend(DayBefore(adate))
    ELSE adate

func_prev_weekdayNoLoop(adate) == DayBefore(adate)
func_prev_weekday(adate) == WhileWeekend(DayBefore(adate))

\* prev_weekday = func_prev_weekday(date(current_time.year, month, day))
PrevWeekday ==
    /\ date_pc = "first"
    /\ LET r == func_prev_weekday(today)
       IN  IF r = 0 THEN date_pc' = "raised" /\ UNCHANGED prev_weekday
           ELSE prev_weekday' = r /\ date_pc' = "second"
    /\ UNCHANGED <<runVars, first_run, mainVars, ioVars, today, prev_two_weekday>>

\* prev_two_weekday = func_prev_weekday(prev_weekday)
PrevTwoWeekday ==
    /\ date_pc = "second"
    /\ LET r == func_prev_weekday(prev_weekday)
       IN  IF r = 0 THEN date_pc' = "raised" /\ UNCHANGED prev_two_weekday
           ELSE prev_two_weekday' = r /\ date_pc' = "done"
    /\ UNCHANGED <<runVars, first_run, mainVars, ioVars, today, prev_weekday>>

InitDates ==
    /\ IdleRun
    /\ first_run = NoRun
    /\ IdleMain
    /\ IdleIo
    /\ today \in date_min..MaxDay
    /\ prev_weekday = 0
    /\ prev_two_weekday = 0
    /\ date_pc = "first"

NextDates == PrevWeekday \/ PrevTwoWeekday

SpecDates == InitDates /\ [][NextDates]_vars

(***************************************************************************)
(* Vocabulary of the properties, stated on the inputs and on the trace     *)
(***************************************************************************)
Rank(p) == CASE p = "baseline" -> 0 [] p = "overcooling" -> 1 [] p = "overheating" -> 2
             [] p = "deadband" -> 3 [] p = "done" -> 4

\* the check named by has been carried out
Checked(by) == Rank(pc) > Rank(by)

OccIdx == {i \in DOMAIN df_data_in :
              6 * 60 <= df_data_in[i].tod /\ df_data_in[i].tod <= 17 * 60 + 59}
ClgIdx == {i \in OccIdx : df_data_in[i].runStatus \in {"Cool-Stage1", "Cool-Stage2"}}
HtgIdx == {i \in OccIdx : df_data_in[i].runStatus \in {"Heat-Stage1", "Heat-Stage2"}}

\* rows of S whose cool (heat) setpoint is a number
CoolNum(S) == {i \in S : df_data_in[i].coolSetting.kind = "num"}
HeatNum(S) == {i \in S : df_data_in[i].heatSetting.kind = "num"}

RECURSIVE CoolSum(_)
CoolSum(S) == IF S = {} THEN 0
              ELSE LET i == CHOOSE j \in S : TRUE
                   IN  df_data_in[i].coolSetting.v + CoolSum(S \ {i})
RECURSIVE HeatSum(_)
HeatSum(S) == IF S = {} THEN 0
              ELSE LET i == CHOOSE j \in S : TRUE
                   IN  df_data_in[i].heatSetting.v + HeatSum(S \ {i})

\* m (hundredths) is sum / n (thousandths) rounded to the nearest hundredth
IsRounded(m, sum, n) ==
    /\ n > 0
    /\ ~m.nan
    /\ 2 * (10 * n * m.v - sum) <= 10 * n
    /\ 2 * (sum - 10 * n * m.v) <= 10 * n

IsWrite(e) == e.op \in {"set_cool_temp_setpoint", "set_heat_temp_setpoint"}
Writes == SelectSeq(out, IsWrite)
WritesBy(by) == SelectSeq(out, LAMBDA e : IsWrite(e) /\ e.by = by)
PromptsBy(by) == SelectSeq(out, LAMBDA e : e.op = "input" /\ e.by = by)
Said(by, msg) == \E i \in DOMAIN out : out[i] = Console(by, msg)

Flag(by) == CASE by = "overcooling" -> occ_clg_spt_low_flag
              [] by = "overheating" -> occ_htg_spt_high_flag
              [] by = "deadband" -> occ_deadband_narrow_flag

Checks == {"overcooling", "overheating", "deadband"}

(***************************************************************************)
(* C1 .. C5: detection thresholds and the end-to-end scenario             *)
(***************************************************************************)
\* preferred - threshold and preferred + threshold, in thousandths of a degree
ClgLimit == 1000 * pref_occ_clg_spt - 10 * setpoint_fdd_deviation_thresh
HtgLimit == 1000 * pref_occ_htg_spt + 10 * setpoint_fdd_deviation_thresh

\* every occupied cooling row carries the same numeric cooling setpoint, and one exists
ConstantClg ==
    /\ ClgIdx # {}
    /\ \A i \in ClgIdx : df_data_in[i].coolSetting.kind = "num"
    /\ \A i, j \in ClgIdx : df_data_in[i].coolSetting = df_data_in[j].coolSetting
ConstantClgValue == df_data_in[CHOOSE i \in ClgIdx : TRUE].coolSetting.v

\* C1 as stated: a constant occupied cooling setpoint C < preferred - threshold
\* is always flagged as overcooling.
C1_FlaggedBelowLimit ==
    (Checked("overcooling") /\ ConstantClg /\ ConstantClgValue < ClgLimit)
        => occ_clg_spt_low_flag

\* C1, amended: a constant occupied cooling setpoint C is flagged as overcooling
\* whenever C rounded to two decimals is below preferred - threshold, that is
\* whenever C is more than half a hundredth below 73.5.
C1_FlaggedBelowLimitRounded ==
    (Checked("overcooling") /\ ConstantClg /\ ConstantClgValue < ClgLimit - 5)
        => occ_clg_spt_low_flag

C1_Witness ==
    /\ Checked("overcooling") /\ ConstantClg /\ ConstantClgValue < ClgLimit - 5
    /\ Cardinality(ClgIdx) = 2
    /\ \E i \in ClgIdx : df_data_in[i].runStatus = "Cool-Stage2"
    /\ occ_clg_spt_low_flag

\* the mean cooling setpoint over the occupied cooling rows is defined and
\* at least preferred - threshold
MeanClgAtLeastLimit ==
    /\ CoolNum(ClgIdx) # {}
    /\ CoolSum(CoolNum(ClgIdx)) >= ClgLimit * Cardinality(CoolNum(ClgIdx))

\* C2: when the mean cooling setpoint over occupied cooling rows is >= preferred -
\* threshold, no overcooling fault is flagged, the overcooling correction writes
\* nothing and the 'no overcooling fault' branch is taken.
C2_NoFlagAtOrAboveLimit ==
    (Checked("overcooling") /\ MeanClgAtLeastLimit)
        => /\ ~occ_clg_spt_low_flag
           /\ WritesBy("overcooling") = <<>>
           /\ Said("overcooling", "There is no overcooling fault")
           /\ ~Said("overcooling", "There is an overcooling fault")

C2_Witness ==
    /\ pc = "done"
    /\ fault_correction_way = "Immediate"
    /\ CoolNum(ClgIdx) # {}
    /\ CoolSum(CoolNum(ClgIdx)) = ClgLimit * Cardinality(CoolNum(ClgIdx))
    /\ Said("overcooling", "There is no overcooling fault")

\* the mean heating setpoint over the occupied heating rows is defined and
\* strictly greater than lim (thousandths)
MeanHtgAbove(lim) ==
    /\ HeatNum(HtgIdx) # {}
    /\ HeatSum(HeatNum(HtgIdx)) > lim * Cardinality(HeatNum(HtgIdx))
MeanHtgBelow(lim) ==
    /\ HeatNum(HtgIdx) # {}
    /\ HeatSum(HeatNum(HtgIdx)) < lim * Cardinality(HeatNum(HtgIdx))

\* C3 as stated: overheating is flagged if and only if the mean heating setpoint
\* over the occupied heating rows is strictly greater than preferred + threshold.
C3_FlaggedIffAboveLimit ==
    Checked("overheating") => (occ_htg_spt_high_flag <=> MeanHtgAbove(HtgLimit))

\* C3, amended: overheating is flagged if and only if the mean heating setpoint
\* rounded to two decimals is strictly greater than preferred + threshold: it is
\* flagged when the mean is more than half a hundredth above 68.5, not flagged when
\* the mean is less than half a hundredth above 68.5 (68.5 itself included) or
\* undefined.
C3_FlaggedIffAboveLimitRounded ==
    Checked("overheating") =>
        /\ MeanHtgAbove(HtgLimit + 5) => occ_htg_spt_high_flag
        /\ MeanHtgBelow(HtgLimit + 5) => ~occ_htg_spt_high_flag
        /\ HeatNum(HtgIdx) = {} => ~occ_htg_spt_high_flag

C3_Witness ==
    /\ Checked("overheating")
    /\ Cardinality(HeatNum(HtgIdx)) = 2
    /\ MeanHtgAbove(HtgLimit + 5)
    /\ \E i \in HtgIdx : df_data_in[i].heatSetting.v <= HtgLimit
    /\ occ_htg_spt_high_flag

\* (mean cool - mean heat) over the occupied rows, times the two counts
OccDefined == CoolNum(OccIdx) # {} /\ HeatNum(OccIdx) # {}
OccDiffScaled ==
    CoolSum(CoolNum(OccIdx)) * Cardinality(HeatNum(OccIdx))
      - HeatSum(HeatNum(OccIdx)) * Cardinality(CoolNum(OccIdx))
OccScale == Cardinality(CoolNum(OccIdx)) * Cardinality(HeatNum(OccIdx))
Warned == Said("deadband", "Cooling setpoint is lower than the heating setpoint")

\* C4 as stated: the deadband fault triggers exactly when (mean cool - mean heat)
\* over the occupied rows is below the deadband threshold; a negative difference
\* also emits the warning; the warning is never emitted for a difference >= 0.
C4_DeadbandIffBelowThreshold ==
    pc = "done" =>
        /\ occ_deadband_narrow_flag
             <=> (OccDefined /\ OccDiffScaled < 10 * deadband_fdd_deviation_thresh * OccScale)
        /\ (OccDefined /\ OccDiffScaled < 0) => (occ_deadband_narrow_flag /\ Warned)
        /\ (OccDefined /\ OccDiffScaled >= 0) => ~Warned

RoundedDiff == ave_clg_spt_occ_operation.v - ave_htg_spt_occ_operation.v

\* C4, amended: with both occupied means rounded to two decimals first, the
\* deadband fault triggers exactly when (rounded mean cool - rounded mean heat) is
\* below the deadband threshold, except that at a rounded difference of exactly
\* the threshold it may trigger too when the two means lie on either side of a
\* power of two; the warning is emitted exactly when the rounded difference is
\* negative, and then the fault triggers as well; the warning is never emitted
\* when the unrounded difference is >= 0.
C4_DeadbandIffBelowThresholdRounded ==
    pc = "done" =>
        /\ CoolNum(OccIdx) # {} =>
              IsRounded(ave_clg_spt_occ_operation, CoolSum(CoolNum(OccIdx)),
                        Cardinality(CoolNum(OccIdx)))
        /\ HeatNum(OccIdx) # {} =>
              IsRounded(ave_htg_spt_occ_operation, HeatSum(HeatNum(OccIdx)),
                        Cardinality(HeatNum(OccIdx)))
        /\ (OccDefined /\ RoundedDiff < deadband_fdd_deviation_thresh)
              => occ_deadband_narrow_flag
        /\ occ_deadband_narrow_flag
              => /\ OccDefined
                 /\ \/ RoundedDiff < deadband_fdd_deviation_thresh
                    \/ /\ RoundedDiff = deadband_fdd_deviation_thresh
                       /\ Binade(ave_clg_spt_occ_operation.v) # Binade(ave_htg_spt_occ_operation.v)
        /\ Warned <=> (OccDefined /\ RoundedDiff < 0)
        /\ Warned => occ_deadband_narrow_flag
        /\ (OccDefined /\ OccDiffScaled >= 0) => ~Warned

C4_Witness ==
    /\ pc = "done"
    /\ OccDefined /\ OccDiffScaled < 0
    /\ Cardinality(OccIdx) = 2
    /\ ClgIdx = {} /\ HtgIdx = {}
    /\ Warned /\ occ_deadband_narrow_flag

\* every row of the table has coolSetting = 70, correction is enabled, mode immediate
Scenario70 ==
    /\ \A i \in DOMAIN df_data_in : df_data_in[i].coolSetting = NumCell(70000)
    /\ fault_correction_enable = "ON"
    /\ fault_correction_way = "Immediate"

C6_NoCallWhenDisabled ==
    fault_correction_enable = "OFF"
        => \A i \in DOMAIN out : ~IsWrite(out[i]) /\ out[i].op # "input"

\* the configured correction times 6:00, 8:00 and 15:00
ScheduledClocks == {[hour |-> 6, minute |-> 0], [hour |-> 8, minute |-> 0],
                    [hour |-> 15, minute |-> 0]}

\* C7: with correction enabled and mode 'Scheduled', the write for a flagged fault
\* is issued if and only if the wall clock reads 6:00, 8:00 or 15:00.
C7_WriteIffScheduledTime ==
    (fault_correction_enable = "ON" /\ fault_correction_way = "Scheduled")
        => \A by \in Checks :
              (Checked(by) /\ Flag(by))
                 => (WritesBy(by) # <<>> <=> current_time \in ScheduledClocks)

Successor(p) == CASE p = "overcooling" -> "overheating" [] p = "overheating" -> "deadband"
                  [] p = "deadband" -> "done"

UserMode == fault_correction_enable = "ON" /\ fault_correction_way = "User"

C8_State ==
    UserMode =>
        \A by \in Checks :
            Checked(by) =>
                IF Flag(by)
                THEN /\ Len(PromptsBy(by)) = 1
                     /\ WritesBy(by) # <<>> <=> PromptsBy(by)[1].msg = "y"
                     /\ \A i, j \in DOMAIN out :
                           (out[i].op = "input" /\ out[i].by = by
                               /\ IsWrite(out[j]) /\ out[j].by = by) => i < j
                ELSE PromptsBy(by) = <<>> /\ WritesBy(by) = <<>>

\* a step of a check in which the operator answered something other than 'y'
C8_Step ==
    (UserMode /\ pc \in Checks /\ Len(out') > Len(out)
        /\ \E i \in DOMAIN out' : i > Len(out) /\ out'[i].op = "input" /\ out'[i].msg # "y")
    => pc' = Successor(pc)

\* C8: with correction enabled and mode 'User', each flagged fault prompts the
\* operator exactly once, before any write for that fault; the write is issued if
\* and only if the answer is 'y'; after 'n' or any other answer nothing is
\* written for that fault and the run goes on to the next check.
C8_PromptGatesWrite == []C8_State /\ [][C8_Step]_vars

C8_Witness ==
    /\ pc = "done" /\ UserMode
    /\ occ_clg_spt_low_flag /\ occ_htg_spt_high_flag /\ occ_deadband_narrow_flag
    /\ PromptsBy("overcooling") # <<>> /\ PromptsBy("overcooling")[1].msg = "n"
    /\ PromptsBy("overheating") # <<>> /\ PromptsBy("overheating")[1].msg = "yes"
    /\ PromptsBy("deadband") # <<>> /\ PromptsBy("deadband")[1].msg = "y"
    /\ WritesBy("overcooling") = <<>> /\ WritesBy("overheating") = <<>>
    /\ Len(WritesBy("deadband")) = 2

(***************************************************************************)
(* C9, C10: undefined means and missing values                             *)
(***************************************************************************)
Silent(by) == WritesBy(by) = <<>> /\ PromptsBy(by) = <<>>

MeanOfNumeric(stored, sum, n) == IF n = 0 THEN stored.nan ELSE IsRounded(stored, sum, n)

\* C10: a non-numeric or missing setpoint is left out of the mean: each mean is the
\* sum of the numeric values divided by the number of numeric values of the
\* filtered rows (rounded to two decimals); a subset whose values are all missing
\* behaves like an empty one.
C10_MissingValuesExcluded ==
    /\ pc # "baseline" =>
          /\ MeanOfNumeric(ave_clg_spt_clg_operation, CoolSum(CoolNum(ClgIdx)),
                           Cardinality(CoolNum(ClgIdx)))
          /\ MeanOfNumeric(ave_htg_spt_htg_operation, HeatSum(HeatNum(HtgIdx)),
                           Cardinality(HeatNum(HtgIdx)))
          /\ MeanOfNumeric(ave_clg_spt_occ_operation, CoolSum(CoolNum(OccIdx)),
                           Cardinality(CoolNum(OccIdx)))
          /\ MeanOfNumeric(ave_htg_spt_occ_operation, HeatSum(HeatNum(OccIdx)),
                           Cardinality(HeatNum(OccIdx)))
    /\ (Checked("overcooling") /\ CoolNum(ClgIdx) = {})
          => ~occ_clg_spt_low_flag /\ Silent("overcooling")
    /\ (Checked("overheating") /\ HeatNum(HtgIdx) = {})
          => ~occ_htg_spt_high_flag /\ Silent("overheating")
    /\ (Checked("deadband") /\ ~OccDefined)
          => ~occ_deadband_narrow_flag /\ Silent("deadband")

C10_Witness ==
    /\ pc = "done"
    /\ Cardinality(ClgIdx) = 2
    /\ Cardinality(CoolNum(ClgIdx)) = 1
    /\ \E i \in ClgIdx : df_data_in[i].coolSetting = TextCell
    /\ ave_clg_spt_clg_operation = Num(7000)
    /\ occ_clg_spt_low_flag

(***************************************************************************)
(* C11, C12: the flags of a run and unmatched settings                     *)
(***************************************************************************)
FlaggedFaults == {by \in Checks : Flag(by)}

\* C11 as stated: a run yields one flag value out of {overcooling, overheating,
\* narrow-deadband, none}: no run flags two or more of the three faults.
C11_AtMostOneFault == Cardinality(FlaggedFaults) <= 1

\* the number of console lines of a check that carry one of the two messages
Decisions(by, fault, nofault) ==
    Len(SelectSeq(out, LAMBDA e : e = Console(by, fault) \/ e = Console(by, nofault)))

\* C11, amended: a run yields one flag value per fault, not one per run: once a
\* check has run, the overcooling (overheating) check has reported exactly one of
\* 'fault' / 'no fault', in agreement with its flag; a fault is flagged only by
\* its own check; two or all three faults may be flagged in the same run.
C11_OneValuePerFault ==
    /\ \A by \in Checks : Flag(by) => Checked(by)
    /\ Decisions("overcooling", "There is an overcooling fault",
                 "There is no overcooling fault")
          = IF Checked("overcooling") THEN 1 ELSE 0
    /\ Decisions("overheating", "There is an overheating fault",
                 "There is no overheating fault")
          = IF Checked("overheating") THEN 1 ELSE 0
    /\ occ_clg_spt_low_flag <=> Said("overcooling", "There is an overcooling fault")
    /\ occ_htg_spt_high_flag <=> Said("overheating", "There is an overheating fault")

C11_Witness ==
    /\ pc = "done"
    /\ FlaggedFaults = Checks
    /\ fault_correction_way = "Immediate"
    /\ Len(Writes) = 4

\* C12: with correction enabled and a mode equal to none of 'Immediate',
\* 'Scheduled', 'User', no flagged fault leads to a 'set' call or a prompt; and
\* an enable value that is neither 'ON' nor 'OFF' issues no write.
C12_UnmatchedIsNoOp ==
    /\ (fault_correction_enable = "ON"
          /\ fault_correction_way \notin {"Immediate", "Scheduled", "User"})
         => \A i \in DOMAIN out : ~IsWrite(out[i]) /\ out[i].op # "input"
    /\ fault_correction_enable \notin {"ON", "OFF"} => Writes = <<>>

(***************************************************************************)
(* C17, C19, C20: two invocations compared                                 *)
(***************************************************************************)
RunFlags == <<occ_clg_spt_low_flag, occ_htg_spt_high_flag, occ_deadband_narrow_flag>>
AnswersIn(o) == SelectSeq(o, LAMBDA e : e.op = "input")
WritesIn(o) == SelectSeq(o, IsWrite)

\* both invocations are over, at the same wall-clock time, with the same answers
SecondOver ==
    /\ pc = "done"
    /\ first_run.ran
    /\ first_run.current_time = current_time
    /\ AnswersIn(first_run.out) = AnswersIn(out)

SameOutcome == RunFlags = first_run.flags /\ WritesIn(out) = WritesIn(first_run.out)

LastTwoDays(df, now) == SelectSeq(df, LAMBDA r : now.day - 2 <= r.day /\ r.day <= now.day)

\* C19: only readings of the lookback window (the last 2 days for duration 48)
\* contribute: two tables that differ only in older readings give the same flags
\* and the same 'set' calls.
C19_OldReadingsIgnored ==
    (SecondOver /\ LastTwoDays(first_run.df_data_in, current_time)
                     = LastTwoDays(df_data_in, current_time))
        => SameOutcome

\* the readings whose time of day is within 06:00 .. 17:59
OccupiedHours(df) == SelectSeq(df, LAMBDA r : 6 * 60 <= r.tod /\ r.tod <= 17 * 60 + 59)

\* C20: two tables that differ only in readings outside 06:00 .. 17:59 give the
\* same three flags and the same 'set' calls; a reading at exactly 06:00 or at
\* exactly 17:59 counts (its setpoint enters the occupied mean).
C20_UnoccupiedReadingsIgnored ==
    /\ (SecondOver /\ OccupiedHours(first_run.df_data_in) = OccupiedHours(df_data_in))
          => SameOutcome
    /\ (pc # "baseline"
          /\ \E i \in DOMAIN df_data_in :
                 /\ df_data_in[i].tod \in {6 * 60, 17 * 60 + 59}
                 /\ df_data_in[i].coolSetting.kind = "num")
          => ~ave_clg_spt_occ_operation.nan

C20_Witness ==
    /\ SecondOver
    /\ OccupiedHours(first_run.df_data_in) = OccupiedHours(df_data_in)
    /\ first_run.df_data_in # df_data_in
    /\ \E i \in DOMAIN df_data_in : df_data_in[i].tod = 17 * 60 + 59
    /\ \E i \in DOMAIN df_data_in : df_data_in[i].tod = 18 * 60
    /\ \E i \in DOMAIN first_run.df_data_in : first_run.df_data_in[i].tod = 6 * 60 - 1
    /\ ~occ_clg_spt_low_flag /\ ~ave_clg_spt_occ_operation.nan

(***************************************************************************)
(* C18: schedule correction in the __main__ blocks                         *)
(***************************************************************************)
ScheduleCalls == SelectSeq(main_out, LAMBDA e : e.op = "set_schedule")
ScheduleCallsBy(by) == SelectSeq(main_out, LAMBDA e : e.op = "set_schedule" /\ e.by = by)

HistoryKinds(r) == {r.ThermostatHistory[i].History.kind : i \in DOMAIN r.ThermostatHistory}

\* the last call parsed a response in which a device has no 'History' entry and
\* every other device has a list of time points
ParsedMissingHistory ==
    /\ ret.op \in {"get_historical_data", "fdc_parse_historical_data"}
    /\ resp.wellformed
    /\ "ThermostatHistory" \in resp.has
    /\ "absent" \in HistoryKinds(resp)
    /\ HistoryKinds(resp) \subseteq {"absent", "list"}

NamesOfKind(r, kind) ==
    SelectSeq([i \in DOMAIN r.ThermostatHistory |-> r.ThermostatHistory[i]],
              LAMBDA st : st.History.kind = kind)

\* C13: a device without a 'History' entry is logged and skipped and the call
\* completes without raising, also when that device is the only one in the
\* response; devices that do have History are still parsed.
C13_MissingHistoryTolerated ==
    ParsedMissingHistory =>
        /\ ret.kind = "returned"
        /\ ret.op = "get_historical_data" =>
              /\ \A i \in DOMAIN resp.ThermostatHistory :
                    resp.ThermostatHistory[i].History.kind = "absent"
                       => \E j \in DOMAIN ret.val.log :
                             ret.val.log[j] = <<resp.ThermostatHistory[i].name,
                                                "contains no History">>
              /\ Len(ret.val.his_collector) = Len(NamesOfKind(resp, "list"))

Last(q) == q[Len(q)]

\* a step in which a request was sent and the response was not XML
C14_Step ==
    (sent' # sent /\ ~resp'.wellformed) =>
        /\ ret' = Raised(Last(sent').op, "ExpatError")
        /\ csvfile' = csvfile
        /\ appended' = appended
        /\ Len(sent') = Len(sent) + 1

\* C14: when the response cannot be parsed as XML, get_data and
\* get_historical_data end with the parse failure (ExpatError) raised to the
\* caller: nothing is returned, no row is appended to the CSV log and exactly
\* the one request was sent.
C14_MalformedPropagates == [][C14_Step]_vars

C14_Witness ==
    /\ ret = Raised("fdc_get_data", "ExpatError")
    /\ ~resp.wellformed
    /\ Len(sent) = 2
    /\ Last(sent).object_type = "ThermostatHistory"
    /\ Len(appended) = 1
    /\ columns # <<>>

\* the log was created by create_csv
Created == columns # <<>>

AsText(rows) == [i \in DOMAIN rows |-> [j \in DOMAIN rows[i] |-> Text(Str(rows[i][j]))]]

IsPrefix(a, b) == Len(a) <= Len(b) /\ SubSeq(b, 1, Len(a)) = a

\* a step in which a Thermostat was polled
C16_Step ==
    (sent' # sent /\ Last(sent').object_type = "Thermostat") =>
        /\ IsPrefix(csvfile, csvfile')
        /\ IsPrefix(ReadCsv(csvfile), ReadCsv(csvfile'))
        /\ ret'.kind = "returned" =>
              /\ Len(ReadCsv(csvfile')) = Len(ReadCsv(csvfile)) + 1
              /\ Len(Last(ReadCsv(csvfile'))) = Len(column_names)
              /\ Len(column_names) = 18

\* C16: every successful get_data poll of a Thermostat adds exactly one row at
\* the end of the log, with as many fields as the column header (18); no poll
\* modifies, removes or reorders what the file already holds.
C16_AppendOnlyOneRowPerPoll == [][C16_Step]_vars

C16_Witness ==
    /\ columns = column_names
    /\ Len(sent) = 2
    /\ \A i \in DOMAIN sent : sent[i] = Request("get_data", "Thermostat")
    /\ ret = Returned("get_data", <<>>)
    /\ resp.Thermostat["humidity"] = None
    /\ Len(ReadCsv(csvfile)) = 3
    /\ \A i \in 1..3 : Len(ReadCsv(csvfile)[i]) = 18

(***************************************************************************)
(* C21: run-status filtering                                               *)
(***************************************************************************)
\* the coolSetting cells of the occupied rows in a cooling stage, in table order
CoolOfCooling(df) ==
    LET s == SelectSeq(OccupiedHours(df),
                       LAMBDA r : r.runStatus \in {"Cool-Stage1", "Cool-Stage2"})
    IN  [i \in 1..Len(s) |-> s[i].coolSetting]

\* the heatSetting cells of the occupied rows in a heating stage, in table order
HeatOfHeating(df) ==
    LET s == SelectSeq(OccupiedHours(df),
                       LAMBDA r : r.runStatus \in {"Heat-Stage1", "Heat-Stage2"})
    IN  [i \in 1..Len(s) |-> s[i].heatSetting]

\* C21: the overcooling flag depends only on the coolSetting of the occupied rows
\* whose runStatus is Cool-Stage1 or Cool-Stage2, the overheating flag only on
\* the heatSetting of the occupied rows whose runStatus is Heat-Stage1 or
\* Heat-Stage2: two tables that agree on these give the same flag, whatever
\* their rows of another run status hold.
C21_RunStatusFiltering ==
    (pc = "done" /\ first_run.ran)
        => /\ CoolOfCooling(first_run.df_data_in) = CoolOfCooling(df_data_in)
                 => first_run.flags[1] = occ_clg_spt_low_flag
           /\ HeatOfHeating(first_run.df_data_in) = HeatOfHeating(df_data_in)
                 => first_run.flags[2] = occ_htg_spt_high_flag

\* the two tables differ only in the setpoints of an "Off" row; the overcooling
\* flag is raised by both, the deadband flag by one of them only
C21_Witness ==
    /\ pc = "done" /\ first_run.ran
    /\ Len(df_data_in) = 2 /\ Len(first_run.df_data_in) = 2
    /\ df_data_in[1] = first_run.df_data_in[1]
    /\ df_data_in[1].runStatus = "Cool-Stage1"
    /\ df_data_in[2].runStatus = "Off" /\ first_run.df_data_in[2].runStatus = "Off"
    /\ df_data_in[2] # first_run.df_data_in[2]
    /\ occ_clg_spt_low_flag /\ first_run.flags[1]
    /\ occ_deadband_narrow_flag # first_run.flags[3]

(***************************************************************************)
(* C22: weekday readings                                                   *)
(***************************************************************************)
\* the readings timestamped on a Monday .. Friday
Weekdays(df) == SelectSeq(df, LAMBDA r : weekday(r.day) <= 4)

\* C22: only weekday readings contribute: two tables that differ only in
\* readings timestamped on a Saturday or a Sunday give the same flags and the
\* same 'set' calls.
C22_WeekendReadingsIgnored ==
    (SecondOver /\ Weekdays(first_run.df_data_in) = Weekdays(df_data_in))
        => SameOutcome

(***************************************************************************)
(* C23: the default selection of get_data                                  *)
(***************************************************************************)
\* C23: a get_data call for 'ThermostatHistory' that relies on the default
\* selection leaves the default selection unchanged, so every later get_data
\* call with the default selection is sent with the selection {name} only:
\* no startDateTime or endDateTime of an earlier call is carried over.
C23_DefaultSelectionKept ==
    /\ selection = DefaultSelection
    /\ \A i \in DOMAIN sent :
          (sent[i].op = "fdc_get_data" /\ sent[i].object_type = "Thermostat")
              => sent[i].selection = DefaultSelection

(***************************************************************************)
(* C24: the table handed to the detector                                   *)
(***************************************************************************)
\* C24: setpoint_setting_fdd_correction leaves the table passed to it unchanged
\* (same rows, same order, same cells, non-numeric setpoint strings included):
\* no step of the __main__ block, and so no step of the detector, changes the
\* table, and the Schedule Learner called afterwards is given what was fetched.
C24_TableUnchanged == [][df_data_in' = df_data_in]_vars

\* the detector has returned and the learner is about to be called on a table
\* that still holds a non-numeric cooling setpoint
C24_Witness ==
    /\ script = Driver
    /\ main_pc = "learn"
    /\ pc = "done"
    /\ \E i \in DOMAIN df_data_in : df_data_in[i].coolSetting = TextCell

(***************************************************************************)
(* C25: schedule numbers                                                   *)
(***************************************************************************)
\* C25: the set_schedule calls of one run that target the same day use distinct
\* schedule numbers (setTime index): the occupied-end call does not address the
\* entry that the occupied-start call has just written.
C25_DistinctScheduleNumbers ==
    \A i, j \in DOMAIN ScheduleCalls :
        (i < j /\ ScheduleCalls[i].day = ScheduleCalls[j].day)
            => ScheduleCalls[i].duration # ScheduleCalls[j].duration

(***************************************************************************)
(* C26: what parse_historical_data returns                                 *)
(***************************************************************************)
\* the tables in the value that get_historical_data hands back to its caller:
\* the function returns df_his_data_out, which is one table
ReturnedTables == {ret.val.df}

\* C26: parse_historical_data returns the data of every thermostat in the
\* response: for each thermostat listed with History, the result holds its
\* name and its own history table; none is dropped or replaced by another's.
C26_EveryThermostatReturned ==
    (ret.op = "get_historical_data" /\ ret.kind = "returned")
        => \A i \in DOMAIN resp.ThermostatHistory :
              resp.ThermostatHistory[i].History.kind = "list"
                 => [Name |-> resp.ThermostatHistory[i].name,
                     data |-> resp.ThermostatHistory[i].History.points] \in ReturnedTables

WritePos(by) == {i \in DOMAIN out : IsWrite(out[i]) /\ out[i].by = by}

\* the operations of the 'set' calls issued by a check, in order
WriteOps(by) == [i \in DOMAIN WritesBy(by) |-> WritesBy(by)[i].op]

MainSaid(msg) == \E i \in DOMAIN main_out : main_out[i].op = "print" /\ main_out[i].msg = msg

\* C29: 'The new occupied start time has been set!' is printed only in a run in
\* which the occupied-start set_schedule call was issued, and 'The new occupied
\* end time has been set!' only when the occupied-end set_schedule call was
\* issued; with a flag equal to 0 the corresponding message is not printed.
C29_MessagesTruthful ==
    /\ MainSaid("The new occupied start time has been set!")
          => ScheduleCallsBy("start") # <<>> /\ occupied_start_time_flag = 1
    /\ MainSaid("The new occupied end time has been set!")
          => ScheduleCallsBy("end") # <<>> /\ occupied_end_time_flag = 1

(***************************************************************************)
(* C30: func_prev_weekday                                                  *)
(***************************************************************************)
\* r is the latest weekday (Monday .. Friday) strictly before d: not a Saturday
\* or Sunday, 1 to 3 days before d, and no weekday lies between r and d
IsPrevWeekday(r, d) ==
    /\ weekday(r) <= 4
    /\ d - 3 <= r /\ r <= d - 1
    /\ \A k \in (r + 1)..(d - 1) : weekday(k) > 4

\* C30 as stated: func_prev_weekday terminates for every date and returns the
\* latest weekday strictly before its argument; applied twice it yields the two
\* most recent distinct weekdays before the argument.
C30_EveryDate ==
    /\ date_pc # "raised"
    /\ date_pc \in {"second", "done"} => IsPrevWeekday(prev_weekday, today)
    /\ date_pc = "done" => /\ IsPrevWeekday(prev_two_weekday, prev_weekday)
                           /\ prev_two_weekday < prev_weekday

\* the argument of the call that raised
RaisedOn == IF prev_weekday = 0 THEN today ELSE prev_weekday

\* C30, amended: for every date after date.min (0001-01-01) func_prev_weekday
\* terminates and returns the latest weekday strictly before its argument (never
\* a Saturday or Sunday, 1 to 3 days before it, no weekday in between); for
\* date.min itself it raises OverflowError, no earlier date existing. Applied
\* twice it yields the two most recent distinct weekdays before the argument
\* unless the first result is date.min.
C30_EveryDateAfterMin ==
    /\ date_pc = "raised" => RaisedOn = date_min
    /\ (today > date_min /\ date_pc # "first")
          => date_pc # "idle" /\ IsPrevWeekday(prev_weekday, today)
    /\ (prev_weekday > date_min /\ date_pc \notin {"first", "second"})
          => /\ date_pc = "done"
             /\ IsPrevWeekday(prev_two_weekday, prev_weekday)
             /\ prev_two_weekday < prev_weekday

\* from a Monday: the Friday three days before it, then the Thursday
C30_Witness ==
    /\ date_pc = "done"
    /\ weekday(today) = 0
    /\ prev_weekday = today - 3
    /\ prev_two_weekday = today - 4

====
